---- MODULE Spec2Model ----
(***************************************************************************)
(* stretchtime: a terminal countdown timer (src/src/main.rs).              *)
(* The model follows main() from argument parsing through terminal setup,  *)
(* the run_app event loop driving App::on_tick / App::reset /              *)
(* App::toggle_auto_mode, and the terminal restoration at the end.         *)
(***************************************************************************)
EXTENDS Integers, Sequences, FiniteSets, TLC

(* ---------------------------- bounds ---------------------------------- *)
\* largest |value| of a numeric command-line argument that is explored
MaxSeconds == 2
\* longest command-line argument string that is explored
MaxArgLen == 2
\* largest number of user arguments (after argv[0]) that is explored
MaxArgs == 2
\* the clock since the last tick boundary is explored up to this many ms
MaxElapsed == 2000
\* the count of on_tick calls saturates here
MaxTicks == 5

(* ------------------------ program constants --------------------------- *)
\* std::time::Duration::from_millis(1000)
tick_rate == 1000
\* i32::MAX, the width of time_seconds / countdown_seconds
I32Max == 2147483647

(* ------------------------- input alphabets ---------------------------- *)
Digits == {"0", "1", "2", "3", "4", "5", "6", "7", "8", "9"}
\* the characters arguments are built from: digits, the minus sign and a
\* non-numeric character
ArgChars == Digits \cup {"-", "x"}
\* amounts of time (ms) one blocking call may take
Delays == {0, 500, 1000}
\* what event::read() can deliver
Events == {"q", "r", "a", "other_key", "non_key"}

DigitVal(c) ==
  CASE c = "0" -> 0 [] c = "1" -> 1 [] c = "2" -> 2 [] c = "3" -> 3
    [] c = "4" -> 4 [] c = "5" -> 5 [] c = "6" -> 6 [] c = "7" -> 7
    [] c = "8" -> 8 [] c = "9" -> 9

RECURSIVE DigitsValue(_, _)
\* base-10 value of a digit string, most significant digit first
DigitsValue(s, acc) ==
  IF s = << >> THEN acc ELSE DigitsValue(Tail(s), acc * 10 + DigitVal(Head(s)))

\* str::parse::<i32>(): optional sign, then one or more digits, within i32
ParseI32(s) ==
  LET signed == s # << >> /\ Head(s) \in {"+", "-"}
      body   == IF signed THEN Tail(s) ELSE s
      neg    == signed /\ Head(s) = "-"
      mag    == DigitsValue(body, 0)
      val    == IF neg THEN 0 - mag ELSE mag
  IN  IF body = << >> \/ \E i \in 1..Len(body) : body[i] \notin Digits
        THEN [ok |-> FALSE, val |-> 0]
      ELSE IF val > I32Max \/ val < 0 - I32Max - 1
        THEN [ok |-> FALSE, val |-> 0]
      ELSE [ok |-> TRUE, val |-> val]

\* the argument strings explored: every string up to MaxArgLen that does not
\* parse, and every one that parses to a value within MaxSeconds of zero
ArgStrings ==
  { s \in UNION { [1..k -> ArgChars] : k \in 0..MaxArgLen } :
      ParseI32(s).ok => (ParseI32(s).val <= MaxSeconds /\ ParseI32(s).val >= 0 - MaxSeconds) }

argv0 == <<"x">>

(* --------------------------- timer state ------------------------------ *)
\* value of `app` before App::new has run
NoApp == [absent |-> TRUE]

\* App::new
new(seconds) ==
  [countdown_seconds |-> seconds, countdown_config |-> seconds,
   reset |-> FALSE, auto_mode |-> FALSE, sound_played |-> FALSE]

\* The four statements of App::on_tick, each a function of the pair
\* [app, log]; log records, in order, what the call did.
\* variant: the chime is played but sound_played is never set
tick_chime_no_flag(st) ==
  IF st.app.countdown_seconds = 0 /\ ~st.app.sound_played
    THEN [st EXCEPT !.log = Append(st.log, "play_sound")]
    ELSE st

\* variant: the !sound_played guard is missing
tick_chime_unguarded(st) ==
  IF st.app.countdown_seconds = 0
    THEN [app |-> [st.app EXCEPT !.sound_played = TRUE],
          log |-> Append(st.log, "play_sound")]
    ELSE st

tick_chime(st) ==
  IF st.app.countdown_seconds = 0 /\ ~st.app.sound_played
    THEN [app |-> [st.app EXCEPT !.sound_played = TRUE],
          log |-> Append(st.log, "play_sound")]
    ELSE st

\* variant: auto mode never requests the reset
tick_auto_never(st) == st

tick_auto(st) ==
  IF st.app.countdown_seconds = 0 /\ st.app.auto_mode
    THEN [st EXCEPT !.app.reset = TRUE]
    ELSE st

\* variant: the reset forgets to clear sound_played
tick_reset_keeps_played(st) ==
  IF st.app.reset
    THEN [app |-> [st.app EXCEPT !.countdown_seconds = st.app.countdown_config,
                                 !.reset = FALSE],
          log |-> Append(st.log, "reset")]
    ELSE st

tick_reset(st) ==
  IF st.app.reset
    THEN [app |-> [st.app EXCEPT !.countdown_seconds = st.app.countdown_config,
                                 !.sound_played = FALSE,
                                 !.reset = FALSE],
          log |-> Append(st.log, "reset")]
    ELSE st

\* variant: the decrement is not guarded by countdown_seconds > 0
tick_decrement_unguarded(st) ==
  [app |-> [st.app EXCEPT !.countdown_seconds = st.app.countdown_seconds - 1],
   log |-> Append(st.log, "decrement")]

\* variant: the guard is countdown_seconds > 1
tick_decrement_stops_at_one(st) ==
  IF st.app.countdown_seconds > 1
    THEN [app |-> [st.app EXCEPT !.countdown_seconds = st.app.countdown_seconds - 1],
          log |-> Append(st.log, "decrement")]
    ELSE st

\* variant: the decrement subtracts 2
tick_decrement_by_two(st) ==
  IF st.app.countdown_seconds > 0
    THEN [app |-> [st.app EXCEPT !.countdown_seconds = st.app.countdown_seconds - 2],
          log |-> Append(st.log, "decrement")]
    ELSE st

tick_decrement(st) ==
  IF st.app.countdown_seconds > 0
    THEN [app |-> [st.app EXCEPT !.countdown_seconds = st.app.countdown_seconds - 1],
          log |-> Append(st.log, "decrement")]
    ELSE st

\* variant: the decrement runs first, before the chime and reset checks
on_tick_decrement_first(self) ==
  tick_reset(tick_auto(tick_chime(tick_decrement([app |-> self, log |-> << >>]))))

\* variant: the reset is applied last, after the decrement
on_tick_reset_last(self) ==
  tick_reset(tick_decrement(tick_auto(tick_chime([app |-> self, log |-> << >>]))))

\* App::on_tick
on_tick(self) ==
  tick_decrement(tick_reset(tick_auto(tick_chime([app |-> self, log |-> << >>]))))

\* variant: reset() restores the countdown at once instead of deferring it
reset_immediate(self) ==
  [self EXCEPT !.reset = TRUE, !.countdown_seconds = self.countdown_config]

\* App::reset
reset(self) == [self EXCEPT !.reset = TRUE]

\* variant: a always switches auto mode on
toggle_auto_mode_sets(self) == [self EXCEPT !.auto_mode = TRUE]

\* App::toggle_auto_mode
toggle_auto_mode(self) == [self EXCEPT !.auto_mode = ~self.auto_mode]

(* ----------------------------- rendering ------------------------------ *)
\* i32 `/`: the quotient rounds toward zero (b > 0)
TruncDiv(a, b) == IF a >= 0 THEN a \div b ELSE 0 - ((0 - a) \div b)

\* i32 `%`: the remainder has the sign of the dividend (b > 0)
TruncRem(a, b) == a - b * TruncDiv(a, b)

DigitChar(d) == CHOOSE c \in Digits : DigitVal(c) = d

RECURSIVE NatDigits(_)
\* decimal digits of n >= 0, most significant first
NatDigits(n) ==
  IF n < 10 THEN <<DigitChar(n)>>
  ELSE Append(NatDigits(n \div 10), DigitChar(n % 10))

\* format!("{}", n)
Fmt(n) == IF n < 0 THEN <<"-">> \o NatDigits(0 - n) ELSE NatDigits(n)

\* format!("{:02}", n): zero-padded to a width of at least 2, sign included
Fmt02(n) == IF Len(Fmt(n)) >= 2 THEN Fmt(n) ELSE <<"0">> \o Fmt(n)

\* variant: minutes computed as countdown_seconds / 60, the % 3600 forgotten
get_hhmmss_minutes_unreduced(self) ==
  LET hours   == TruncDiv(self.countdown_seconds, 3600)
      minutes == TruncDiv(self.countdown_seconds, 60)
      seconds == TruncRem(TruncRem(self.countdown_seconds, 3600), 60)
  IN  Fmt02(hours) \o <<":">> \o Fmt02(minutes) \o <<":">> \o Fmt02(seconds)
        \o <<" ", "(">> \o Fmt(self.countdown_seconds) \o <<")">>

\* App::get_hhmmss
get_hhmmss(self) ==
  LET hours   == TruncDiv(self.countdown_seconds, 3600)
      minutes == TruncDiv(TruncRem(self.countdown_seconds, 3600), 60)
      seconds == TruncRem(TruncRem(self.countdown_seconds, 3600), 60)
  IN  Fmt02(hours) \o <<":">> \o Fmt02(minutes) \o <<":">> \o Fmt02(seconds)
        \o <<" ", "(">> \o Fmt(self.countdown_seconds) \o <<")">>

\* App::get_automode_string
get_automode_string(self) ==
  IF self.auto_mode THEN "Auto mode: true" ELSE "Auto mode: false"

\* ui: the two lines of text of the paragraph
ui(self) == <<get_hhmmss(self), get_automode_string(self)>>

(* ----------------------------- state ---------------------------------- *)
VARIABLES
  args,              \* std::env::args(), argv[0] included
  pc,                \* the statement of main / run_app that runs next
  time_seconds,      \* main's parsed argument
  app,               \* the App value, NoApp before App::new
  res,               \* run_app's result: "none", "Ok" or "io_err"
  main_ret,          \* what main returned: "none", "Ok", an Error kind, "exit", "panic"
  exit_code,         \* process exit status, -1 while running
  stdout,            \* lines printed with println!
  raw_mode,          \* terminal: raw mode enabled
  alt_screen,        \* terminal: alternate screen entered
  mouse_capture,     \* terminal: mouse capture enabled
  cursor_hidden,     \* terminal: cursor hidden
  elapsed,           \* last_tick.elapsed() in ms
  attempted,         \* history: terminal-control calls main has made
  failed,            \* history: terminal-control calls that returned Err
  term_modified,     \* history: some terminal-control call changed the terminal
  tick_log,          \* history: what the latest on_tick call did, in order
  nticks,            \* history: number of on_tick calls (saturates at MaxTicks)
  untouched,         \* history: neither reset() nor toggle_auto_mode() called yet
  reset_since_chime, \* history: a reset was applied after the latest chime
  ticked,            \* history: the latest tick check called on_tick
  last_event,        \* history: the event the latest poll delivered, "none" if none
  screen,            \* the text the latest successful draw put on the terminal
  play_time,         \* history: ms the latest on_tick call blocked in play_sound
  cycle_chimes,      \* history: play_sound calls since the latest applied reset (saturates at 2)
  calls_since_chime, \* history: on_tick calls since the latest one that chimed (saturates at MaxTicks)
  auto_start         \* history: a was pressed before the first tick, and no r or a since

vars == <<args, pc, time_seconds, app, res, main_ret, exit_code, stdout,
          raw_mode, alt_screen, mouse_capture, cursor_hidden, elapsed,
          attempted, failed, term_modified, tick_log, nticks, untouched,
          reset_since_chime, ticked, last_event, screen, play_time,
          cycle_chimes, calls_since_chime, auto_start>>

term     == <<raw_mode, alt_screen, mouse_capture, cursor_hidden>>
timer    == <<app, tick_log, nticks, untouched, reset_since_chime, ticked, last_event,
             screen, play_time, cycle_chimes, calls_since_chime, auto_start>>
counts   == <<play_time, cycle_chimes, calls_since_chime>>
outcome  == <<res, main_ret, exit_code, stdout>>
history  == <<attempted, failed, term_modified>>

Max(a, b) == IF a >= b THEN a ELSE b
Min(a, b) == IF a <= b THEN a ELSE b

Init ==
  /\ \E k \in 0..MaxArgs, s \in ArgStrings :
       args = <<argv0>> \o [i \in 1..k |-> IF i = 1 THEN s ELSE <<"x">>]
  /\ pc = "check_args"
  /\ time_seconds = 0
  /\ app = NoApp
  /\ res = "none"
  /\ main_ret = "none"
  /\ exit_code = -1
  /\ stdout = << >>
  /\ raw_mode = FALSE
  /\ alt_screen = FALSE
  /\ mouse_capture = FALSE
  /\ cursor_hidden = FALSE
  /\ elapsed = 0
  /\ attempted = {}
  /\ failed = {}
  /\ term_modified = FALSE
  /\ tick_log = << >>
  /\ nticks = 0
  /\ untouched = TRUE
  /\ reset_since_chime = FALSE
  /\ ticked = FALSE
  /\ last_event = "none"
  /\ screen = << >>
  /\ play_time = 0
  /\ cycle_chimes = 0
  /\ calls_since_chime = 0
  /\ auto_start = FALSE

(* ------------------------- main: arguments ---------------------------- *)
\* exit(1)
Exit1 ==
  /\ pc' = "exited"
  /\ exit_code' = 1
  /\ main_ret' = "exit"

\* main returns Err(kind) through `?`
ReturnErr(kind) ==
  /\ pc' = "exited"
  /\ exit_code' = 1
  /\ main_ret' = kind

\* variant: the count test is args.len() < 2
CheckArgs_AtLeast ==
  /\ pc = "check_args"
  /\ IF Len(args) < 2
       THEN /\ stdout' = Append(stdout, "Requires only 1 argument: time in seconds")
            /\ Exit1
       ELSE /\ pc' = "parse"
            /\ UNCHANGED <<stdout, exit_code, main_ret>>
  /\ UNCHANGED <<args, time_seconds, res, term, elapsed, history, timer>>

\* if args.len() != 2 { println!(..); exit(1); }
CheckArgs ==
  /\ pc = "check_args"
  /\ IF Len(args) # 2
       THEN /\ stdout' = Append(stdout, "Requires only 1 argument: time in seconds")
            /\ Exit1
       ELSE /\ pc' = "parse"
            /\ UNCHANGED <<stdout, exit_code, main_ret>>
  /\ UNCHANGED <<args, time_seconds, res, term, elapsed, history, timer>>

\* let time_seconds: i32 = match args[1].parse() { .. }
ParseArg ==
  /\ pc = "parse"
  /\ LET r == ParseI32(args[2])
     IN  IF r.ok
           THEN /\ time_seconds' = r.val
                /\ pc' = "enable_raw"
                /\ UNCHANGED <<stdout, exit_code, main_ret>>
           ELSE /\ stdout' = Append(stdout, "Failure parsing argument: it must be a number")
                /\ Exit1
                /\ UNCHANGED time_seconds
  /\ UNCHANGED <<args, res, term, elapsed, history, timer>>

(* ----------------------- main: terminal setup ------------------------- *)
\* enable_raw_mode().map_err(|_| Error::RawMode)?;
EnableRawMode ==
  /\ pc = "enable_raw"
  /\ attempted' = attempted \cup {"enable_raw_mode"}
  /\ \E ok \in BOOLEAN :
       IF ok
         THEN /\ raw_mode' = TRUE
              /\ term_modified' = TRUE
              /\ pc' = "enter_alt"
              /\ UNCHANGED <<failed, exit_code, main_ret>>
         ELSE /\ failed' = failed \cup {"enable_raw_mode"}
              /\ ReturnErr("RawMode")
              /\ UNCHANGED <<raw_mode, term_modified>>
  /\ UNCHANGED <<args, time_seconds, res, stdout, alt_screen, mouse_capture,
                 cursor_hidden, elapsed, timer>>

\* execute!(stdout, EnterAlternateScreen, EnableMouseCapture).map_err(|_| Error::Command)?;
\* on failure a prefix of the two commands may have reached the terminal
EnterAltScreen ==
  /\ pc = "enter_alt"
  /\ attempted' = attempted \cup {"enter_alt_screen"}
  /\ \E ok \in BOOLEAN :
       IF ok
         THEN /\ alt_screen' = TRUE
              /\ mouse_capture' = TRUE
              /\ pc' = "terminal_new"
              /\ UNCHANGED <<failed, exit_code, main_ret>>
         ELSE /\ \E done \in 0..2 :
                   /\ alt_screen' = (alt_screen \/ done >= 1)
                   /\ mouse_capture' = (mouse_capture \/ done >= 2)
              /\ failed' = failed \cup {"enter_alt_screen"}
              /\ ReturnErr("Command")
  /\ UNCHANGED <<args, time_seconds, res, stdout, raw_mode, cursor_hidden,
                 elapsed, term_modified, timer>>

\* let mut terminal = Terminal::new(backend).map_err(|_| Error::Terminal)?;
TerminalNew ==
  /\ pc = "terminal_new"
  /\ attempted' = attempted \cup {"terminal_new"}
  /\ \E ok \in BOOLEAN :
       IF ok
         THEN /\ pc' = "app_new"
              /\ UNCHANGED <<failed, exit_code, main_ret>>
         ELSE /\ failed' = failed \cup {"terminal_new"}
              /\ ReturnErr("Terminal")
  /\ UNCHANGED <<args, time_seconds, res, stdout, term, elapsed, term_modified, timer>>

\* let mut app = App::new(time_seconds); app.wav.load_mem(..).unwrap();
\* soloud::Soloud::default().unwrap() panics when no audio device opens
AppNew ==
  /\ pc = "app_new"
  /\ \E ok \in BOOLEAN :
       IF ok
         THEN /\ app' = new(time_seconds)
              /\ pc' = "draw"
              /\ UNCHANGED <<exit_code, main_ret>>
         ELSE /\ pc' = "exited"
              /\ exit_code' = 101
              /\ main_ret' = "panic"
              /\ UNCHANGED app
  /\ elapsed' = 0
  /\ UNCHANGED <<args, time_seconds, res, stdout, term, history,
                 tick_log, nticks, untouched, reset_since_chime, ticked, last_event,
                 screen, counts, auto_start>>

(* ------------------------------ run_app ------------------------------- *)
\* run_app returns r; main goes on to restore the terminal
ReturnFromLoop(r) ==
  /\ res' = r
  /\ pc' = "disable_raw"

RECURSIVE ResetSinceChime(_, _)
\* whether a reset was applied after the latest chime, after the events of log
ResetSinceChime(log, before) ==
  IF log = << >> THEN before
  ELSE ResetSinceChime(Tail(log),
         CASE Head(log) = "play_sound" -> FALSE
           [] Head(log) = "reset"      -> TRUE
           [] OTHER                    -> before)

\* whether the on_tick call that wrote log called play_sound
Chimed(log) == \E i \in 1..Len(log) : log[i] = "play_sound"

RECURSIVE CycleChimes(_, _)
\* play_sound calls since the latest applied reset, after the events of log
CycleChimes(log, before) ==
  IF log = << >> THEN before
  ELSE CycleChimes(Tail(log),
         CASE Head(log) = "play_sound" -> Min(before + 1, 2)
           [] Head(log) = "reset"      -> 0
           [] OTHER                    -> before)

\* terminal.draw(|f| ui(f, &app))?;  draw hides the cursor as ui sets none
Draw ==
  /\ pc = "draw"
  /\ \E ok \in BOOLEAN, d \in Delays :
       /\ elapsed + d <= MaxElapsed
       /\ elapsed' = elapsed + d
       /\ IF ok
            THEN /\ cursor_hidden' = TRUE
                 /\ screen' = ui(app)
                 /\ pc' = "poll"
                 /\ UNCHANGED res
            ELSE /\ ReturnFromLoop("io_err")
                 /\ UNCHANGED <<cursor_hidden, screen>>
  /\ UNCHANGED <<args, time_seconds, main_ret, exit_code, stdout, raw_mode,
                 alt_screen, mouse_capture, history, app, tick_log, nticks,
                 untouched, reset_since_chime, ticked, last_event, counts,
                 auto_start>>

\* tick_rate.checked_sub(last_tick.elapsed()).unwrap_or_else(|| Duration::from_secs(0))
timeout == Max(tick_rate - elapsed, 0)

\* crossterm::event::poll(timeout)? returns Err
PollError ==
  /\ pc = "poll"
  /\ ReturnFromLoop("io_err")
  /\ UNCHANGED <<args, time_seconds, main_ret, exit_code, stdout, term, elapsed,
                 history, timer>>

\* poll(timeout)? returns false: the whole timeout went by, perhaps a little more
PollTimeout ==
  /\ pc = "poll"
  /\ \E over \in Delays :
       /\ elapsed + timeout + over <= MaxElapsed
       /\ elapsed' = elapsed + timeout + over
  /\ pc' = "tick_check"
  /\ last_event' = "none"
  /\ UNCHANGED <<args, time_seconds, outcome, term, history, app, tick_log,
                 nticks, untouched, reset_since_chime, ticked, screen, counts,
                 auto_start>>

\* poll(timeout)? returns true after waiting w, then event::read()? returns Err
ReadError ==
  /\ pc = "poll"
  /\ \E w \in Delays :
       /\ w <= timeout
       /\ elapsed' = elapsed + w
  /\ ReturnFromLoop("io_err")
  /\ UNCHANGED <<args, time_seconds, main_ret, exit_code, stdout, term,
                 history, timer>>

\* variant: after a key the loop continues with the next draw, skipping the
\* tick check of this iteration
HandleEvent_SkipsTick ==
  /\ pc = "poll"
  /\ \E w \in Delays :
       /\ w <= timeout
       /\ elapsed' = elapsed + w
  /\ \E ev \in Events :
       /\ last_event' = ev
       /\ IF ev = "q"
            THEN /\ ReturnFromLoop("Ok")
                 /\ UNCHANGED <<app, untouched, auto_start>>
            ELSE /\ app' = CASE ev = "r" -> reset(app)
                             [] ev = "a" -> toggle_auto_mode(app)
                             [] OTHER    -> app
                 /\ untouched' = (untouched /\ ev \notin {"r", "a"})
                 /\ auto_start' = CASE ev = "a" -> (untouched /\ nticks = 0)
                                    [] ev = "r" -> FALSE
                                    [] OTHER    -> auto_start
                 /\ pc' = IF ev \in {"r", "a", "other_key"} THEN "draw" ELSE "tick_check"
                 /\ UNCHANGED res
  /\ UNCHANGED <<args, time_seconds, main_ret, exit_code, stdout, term, history,
                 tick_log, nticks, reset_since_chime, ticked, screen, counts>>

\* poll(timeout)? returns true after waiting w, event::read()? returns ev,
\* and the key is dispatched: q returns Ok(()), r resets, a toggles auto mode
HandleEvent ==
  /\ pc = "poll"
  /\ \E w \in Delays :
       /\ w <= timeout
       /\ elapsed' = elapsed + w
  /\ \E ev \in Events :
       /\ last_event' = ev
       /\ IF ev = "q"
            THEN /\ ReturnFromLoop("Ok")
                 /\ UNCHANGED <<app, untouched, auto_start>>
            ELSE /\ app' = CASE ev = "r" -> reset(app)
                             [] ev = "a" -> toggle_auto_mode(app)
                             [] OTHER    -> app
                 /\ untouched' = (untouched /\ ev \notin {"r", "a"})
                 /\ auto_start' = CASE ev = "a" -> (untouched /\ nticks = 0)
                                    [] ev = "r" -> FALSE
                                    [] OTHER    -> auto_start
                 /\ pc' = "tick_check"
                 /\ UNCHANGED res
  /\ UNCHANGED <<args, time_seconds, main_ret, exit_code, stdout, term, history,
                 tick_log, nticks, reset_since_chime, ticked, screen, counts>>

\* variant: last_tick is not set to now after on_tick
TickCheck_NoBoundaryReset ==
  /\ pc = "tick_check"
  /\ IF elapsed >= tick_rate
       THEN LET r == on_tick(app)
            IN  /\ app' = r.app
                /\ tick_log' = r.log
                /\ nticks' = Min(nticks + 1, MaxTicks)
                /\ reset_since_chime' = ResetSinceChime(r.log, reset_since_chime)
                /\ cycle_chimes' = CycleChimes(r.log, cycle_chimes)
                /\ calls_since_chime' = IF Chimed(r.log) THEN 0
                                        ELSE Min(calls_since_chime + 1, MaxTicks)
                /\ \E d \in Delays :
                     /\ Chimed(r.log) \/ d = 0
                     /\ play_time' = d
                /\ UNCHANGED elapsed
                /\ ticked' = TRUE
       ELSE /\ ticked' = FALSE
            /\ UNCHANGED <<app, tick_log, nticks, reset_since_chime, elapsed, counts>>
  /\ pc' = "draw"
  /\ UNCHANGED <<args, time_seconds, outcome, term, history, untouched, last_event,
                 screen, auto_start>>

\* if last_tick.elapsed() >= tick_rate { app.on_tick(); last_tick = Instant::now(); }
TickCheck ==
  /\ pc = "tick_check"
  /\ IF elapsed >= tick_rate
       THEN LET r == on_tick(app)
            IN  /\ app' = r.app
                /\ tick_log' = r.log
                /\ nticks' = Min(nticks + 1, MaxTicks)
                /\ reset_since_chime' = ResetSinceChime(r.log, reset_since_chime)
                /\ cycle_chimes' = CycleChimes(r.log, cycle_chimes)
                /\ calls_since_chime' = IF Chimed(r.log) THEN 0
                                        ELSE Min(calls_since_chime + 1, MaxTicks)
                /\ \E d \in Delays :
                     /\ Chimed(r.log) \/ d = 0
                     /\ play_time' = d
                /\ elapsed' = 0
                /\ ticked' = TRUE
       ELSE /\ ticked' = FALSE
            /\ UNCHANGED <<app, tick_log, nticks, reset_since_chime, elapsed, counts>>
  /\ pc' = "draw"
  /\ UNCHANGED <<args, time_seconds, outcome, term, history, untouched, last_event,
                 screen, auto_start>>

(* --------------------- main: terminal restoration --------------------- *)
\* disable_raw_mode().map_err(|_| Error::RawMode)?;
DisableRawMode ==
  /\ pc = "disable_raw"
  /\ attempted' = attempted \cup {"disable_raw_mode"}
  /\ \E ok \in BOOLEAN :
       IF ok
         THEN /\ raw_mode' = FALSE
              /\ pc' = "leave_alt"
              /\ UNCHANGED <<failed, exit_code, main_ret>>
         ELSE /\ failed' = failed \cup {"disable_raw_mode"}
              /\ ReturnErr("RawMode")
              /\ UNCHANGED raw_mode
  /\ UNCHANGED <<args, time_seconds, res, stdout, alt_screen, mouse_capture,
                 cursor_hidden, elapsed, term_modified, timer>>

\* execute!(terminal.backend_mut(), LeaveAlternateScreen, DisableMouseCapture)
\*   .map_err(|_| Error::Command)?;
\* on failure a prefix of the two commands may have reached the terminal
LeaveAltScreen ==
  /\ pc = "leave_alt"
  /\ attempted' = attempted \cup {"leave_alt_screen"}
  /\ \E ok \in BOOLEAN :
       IF ok
         THEN /\ alt_screen' = FALSE
              /\ mouse_capture' = FALSE
              /\ pc' = "show_cursor"
              /\ UNCHANGED <<failed, exit_code, main_ret>>
         ELSE /\ \E done \in 0..2 :
                   /\ alt_screen' = (alt_screen /\ done < 1)
                   /\ mouse_capture' = (mouse_capture /\ done < 2)
              /\ failed' = failed \cup {"leave_alt_screen"}
              /\ ReturnErr("Command")
  /\ UNCHANGED <<args, time_seconds, res, stdout, raw_mode, cursor_hidden,
                 elapsed, term_modified, timer>>

\* terminal.show_cursor().map_err(|_| Error::Terminal)?;
ShowCursor ==
  /\ pc = "show_cursor"
  /\ attempted' = attempted \cup {"show_cursor"}
  /\ \E ok \in BOOLEAN :
       IF ok
         THEN /\ cursor_hidden' = FALSE
              /\ pc' = "print_res"
              /\ UNCHANGED <<failed, exit_code, main_ret>>
         ELSE /\ failed' = failed \cup {"show_cursor"}
              /\ ReturnErr("Terminal")
              /\ UNCHANGED cursor_hidden
  /\ UNCHANGED <<args, time_seconds, res, stdout, raw_mode, alt_screen,
                 mouse_capture, elapsed, term_modified, timer>>

\* if let Err(err) = res { println!("{:?}", err) }  Ok(())
PrintRes ==
  /\ pc = "print_res"
  /\ stdout' = IF res = "io_err" THEN Append(stdout, "io_err") ELSE stdout
  /\ pc' = "exited"
  /\ exit_code' = 0
  /\ main_ret' = "Ok"
  /\ UNCHANGED <<args, time_seconds, res, term, elapsed, history, timer>>

Next ==
  \/ CheckArgs
  \/ ParseArg
  \/ EnableRawMode
  \/ EnterAltScreen
  \/ TerminalNew
  \/ AppNew
  \/ Draw
  \/ PollError
  \/ PollTimeout
  \/ ReadError
  \/ HandleEvent
  \/ TickCheck
  \/ DisableRawMode
  \/ LeaveAltScreen
  \/ ShowCursor
  \/ PrintRes

Spec == Init /\ [][Next]_vars

(* ------------- the loop with no failures and no key input ------------- *)
\* terminal.draw succeeds
DrawOk == Draw /\ pc' = "poll"

\* the one key of these runs: a, pressed before the first tick
KeyAAtStart == HandleEvent /\ last_event' = "a" /\ untouched /\ nticks = 0

NextFair ==
  \/ CheckArgs
  \/ ParseArg
  \/ EnableRawMode
  \/ EnterAltScreen
  \/ TerminalNew
  \/ AppNew
  \/ DrawOk
  \/ PollTimeout
  \/ KeyAAtStart
  \/ TickCheck

\* run_app is a sequential loop whose only wait, poll(timeout), is bounded:
\* as long as a statement is left to run, one is run
SpecFair == Init /\ [][NextFair]_vars /\ WF_vars(NextFair)

(* ------------------- get_hhmmss on its own inputs --------------------- *)
\* the whole hours of the countdown values that are formatted
FormatHours == {0, 1, 10, 99, 100}

\* the countdown values that are formatted: every minute and second of them
FormatInputs == { h * 3600 + k : h \in FormatHours, k \in 0..3599 }

InitFormat ==
  /\ \E r \in FormatInputs :
       /\ args = <<argv0, Fmt(r)>>
       /\ time_seconds = r
       /\ app = new(r)
  /\ pc = "format"
  /\ res = "none"
  /\ main_ret = "none"
  /\ exit_code = -1
  /\ stdout = << >>
  /\ raw_mode = TRUE
  /\ alt_screen = TRUE
  /\ mouse_capture = TRUE
  /\ cursor_hidden = FALSE
  /\ elapsed = 0
  /\ attempted = {"enable_raw_mode", "enter_alt_screen", "terminal_new"}
  /\ failed = {}
  /\ term_modified = TRUE
  /\ tick_log = << >>
  /\ nticks = 0
  /\ untouched = TRUE
  /\ reset_since_chime = FALSE
  /\ ticked = FALSE
  /\ last_event = "none"
  /\ screen = << >>
  /\ play_time = 0
  /\ cycle_chimes = 0
  /\ calls_since_chime = 0
  /\ auto_start = FALSE

\* ui(f, &app): the text is computed from the timer
FormatStep ==
  /\ pc = "format"
  /\ screen' = ui(app)
  /\ pc' = "formatted"
  /\ UNCHANGED <<args, time_seconds, outcome, term, elapsed, history, app,
                 tick_log, nticks, untouched, reset_since_chime, ticked,
                 last_event, counts, auto_start>>

NextFormat == FormatStep

SpecFormat == InitFormat /\ [][NextFormat]_vars

(* ======================= properties of the timer ====================== *)
\* a step in which run_app called app.on_tick()
OnTickStep == pc = "tick_check" /\ elapsed >= tick_rate /\ pc' = "draw"

\* a step in which run_app called app.reset()
ResetCallStep == pc = "poll" /\ pc' = "tick_check" /\ last_event' = "r"

\* how often event e occurs in log
Count(log, e) == Cardinality({i \in 1..Len(log) : log[i] = e})

\* countdown_seconds once on_tick has applied a reset: the restored value is
\* decremented by the last statement of the same call when it is positive
AfterReset(config) == IF config >= 1 THEN config - 1 ELSE config

\* C1: started with countdown_seconds = countdown_config = n, n >= 1, the
\* countdown stays within 0..countdown_config after any sequence of on_tick,
\* reset and toggle_auto_mode calls; it never goes negative.
C1_RemainingInRange ==
  (app # NoApp /\ app.countdown_config >= 1)
    => (0 <= app.countdown_seconds /\ app.countdown_seconds <= app.countdown_config)

\* C1 witness: after ticks, key presses and an applied reset
C1_Witness ==
  /\ app # NoApp
  /\ app.countdown_config >= 2
  /\ ~untouched
  /\ nticks >= 2
  /\ Count(tick_log, "reset") = 1
  /\ app.countdown_seconds = app.countdown_config - 1

\* C2: between operations, sound_played implies countdown_seconds = 0 and that
\* no reset has been applied since the chime was played.
C2_ChimePlayedOnlyAtZero ==
  (app # NoApp /\ app.sound_played)
    => (app.countdown_seconds = 0 /\ ~reset_since_chime)

\* C2 witness: the chime has played in a run where r or a was pressed
C2_Witness ==
  /\ app # NoApp
  /\ app.sound_played
  /\ app.countdown_config >= 1
  /\ ~untouched
  /\ ticked

\* C3 as stated: whatever reset, auto_mode and sound_played are, on_tick from
\* countdown_seconds >= 1 lowers countdown_seconds by exactly 1 and leaves
\* countdown_config unchanged.
C3_Original ==
  [][(OnTickStep /\ app.countdown_seconds >= 1)
       => (/\ app'.countdown_seconds = app.countdown_seconds - 1
           /\ app'.countdown_config = app.countdown_config)]_vars

\* C3 amended: on_tick from countdown_seconds >= 1 leaves countdown_config
\* unchanged; with reset false it lowers countdown_seconds by exactly 1, with
\* reset true it leaves countdown_seconds at the restored value less one.
C3_TickDecrements ==
  [][(OnTickStep /\ app.countdown_seconds >= 1)
       => (/\ app'.countdown_config = app.countdown_config
           /\ ~app.reset => app'.countdown_seconds = app.countdown_seconds - 1
           /\ app.reset => app'.countdown_seconds = AfterReset(app.countdown_config))]_vars

\* C3 witness: a tick that only decremented, in auto mode, from 2 or more
C3_Witness ==
  /\ pc = "draw"
  /\ ticked
  /\ tick_log = <<"decrement">>
  /\ app.auto_mode
  /\ app.countdown_seconds >= 1

\* C4 as stated: whatever auto_mode and reset are, on_tick from
\* countdown_seconds = 0 with sound_played false plays the chime exactly once
\* and ends with sound_played true and countdown_seconds = 0.
C4_Original ==
  [][(OnTickStep /\ app.countdown_seconds = 0 /\ ~app.sound_played)
       => (/\ Count(tick_log', "play_sound") = 1
           /\ app'.sound_played
           /\ app'.countdown_seconds = 0)]_vars

\* C4 amended: on_tick from countdown_seconds = 0 with sound_played false plays
\* the chime exactly once; when auto_mode and reset are both false it ends with
\* sound_played true and countdown_seconds = 0.
C4_ChimeAtZero ==
  [][(OnTickStep /\ app.countdown_seconds = 0 /\ ~app.sound_played)
       => (/\ Count(tick_log', "play_sound") = 1
           /\ (~app.auto_mode /\ ~app.reset)
                => (app'.sound_played /\ app'.countdown_seconds = 0))]_vars

\* C4 witness: a tick that only played the chime
C4_Witness ==
  /\ pc = "draw"
  /\ ticked
  /\ tick_log = <<"play_sound">>
  /\ app.sound_played
  /\ app.countdown_seconds = 0
  /\ app.countdown_config >= 1

\* C5 as stated: with auto_mode true and countdown_seconds = 0, on_tick ends
\* with countdown_seconds = countdown_config and sound_played false, and when
\* sound_played was false the chime is played in that call before the reset.
C5_Original ==
  [][(OnTickStep /\ app.auto_mode /\ app.countdown_seconds = 0)
       => (/\ app'.countdown_seconds = app.countdown_config
           /\ ~app'.sound_played
           /\ ~app.sound_played
                => (/\ Len(tick_log') >= 2
                    /\ tick_log'[1] = "play_sound"
                    /\ tick_log'[2] = "reset"))]_vars

\* C5 amended: with auto_mode true and countdown_seconds = 0, on_tick ends with
\* countdown_seconds = countdown_config - 1 when countdown_config >= 1
\* (countdown_config otherwise) and sound_played false; when sound_played was
\* false the chime is played in that call before the reset, otherwise no chime.
C5_AutoRepeatRestarts ==
  [][(OnTickStep /\ app.auto_mode /\ app.countdown_seconds = 0)
       => (/\ app'.countdown_seconds = AfterReset(app.countdown_config)
           /\ ~app'.sound_played
           /\ ~app'.reset
           /\ ~app.sound_played
                => (/\ Len(tick_log') >= 2
                    /\ tick_log'[1] = "play_sound"
                    /\ tick_log'[2] = "reset")
           /\ app.sound_played => Count(tick_log', "play_sound") = 0)]_vars

\* C5 witness: an auto-mode tick that chimed, reset and decremented
C5_Witness ==
  /\ pc = "draw"
  /\ ticked
  /\ tick_log = <<"play_sound", "reset", "decrement">>
  /\ app.auto_mode
  /\ app.countdown_seconds = app.countdown_config - 1

\* C6 as stated: reset() calls leave countdown_seconds and sound_played as they
\* are until the next on_tick, a repeated call changes nothing, and right after
\* that on_tick countdown_seconds = countdown_config and reset is false.
C6_Original ==
  [][(app # NoApp /\ app' # NoApp)
       => (/\ ResetCallStep => app' = [app EXCEPT !.reset = TRUE]
           /\ ~OnTickStep
                => (/\ app'.countdown_seconds = app.countdown_seconds
                    /\ app'.sound_played = app.sound_played
                    /\ app.reset => app'.reset)
           /\ (OnTickStep /\ app.reset)
                => (/\ app'.countdown_seconds = app.countdown_config
                    /\ ~app'.reset))]_vars

\* C6 amended: reset() calls leave countdown_seconds and sound_played as they
\* are until the next on_tick, a repeated call changes nothing, and right after
\* that on_tick reset is false and countdown_seconds = countdown_config - 1
\* when countdown_config >= 1 (countdown_config otherwise).
C6_ResetDeferred ==
  [][(app # NoApp /\ app' # NoApp)
       => (/\ ResetCallStep => app' = [app EXCEPT !.reset = TRUE]
           /\ ~OnTickStep
                => (/\ app'.countdown_seconds = app.countdown_seconds
                    /\ app'.sound_played = app.sound_played
                    /\ app.reset => app'.reset)
           /\ (OnTickStep /\ app.reset)
                => (/\ app'.countdown_seconds = AfterReset(app.countdown_config)
                    /\ ~app'.reset))]_vars

\* C6 witness: r was pressed and the tick of the same iteration applied it
C6_Witness ==
  /\ pc = "draw"
  /\ ticked
  /\ last_event = "r"
  /\ ~app.auto_mode
  /\ ~app.reset
  /\ tick_log = <<"reset", "decrement">>
  /\ app.countdown_seconds = app.countdown_config - 1

\* the runs C7 is about: no r or a pressed, n >= 1, tick count still exact
C7_Case ==
  /\ app # NoApp
  /\ untouched
  /\ app.countdown_config >= 1
  /\ app.countdown_config + 1 < MaxTicks

\* C7 as stated: without auto mode and resets, from n >= 1 the chime is played
\* during the n-th on_tick call, the one that brings countdown_seconds to 0,
\* sound_played is true after it, and no later call plays the chime again.
C7_Original ==
  C7_Case
    => (/\ nticks = app.countdown_config
             => (/\ app.countdown_seconds = 0
                 /\ Count(tick_log, "play_sound") = 1
                 /\ app.sound_played)
        /\ nticks > app.countdown_config
             => (/\ app.countdown_seconds = 0
                 /\ Count(tick_log, "play_sound") = 0
                 /\ app.sound_played))

\* C7 amended: without auto mode and resets, from n >= 1 the n-th on_tick call
\* brings countdown_seconds to 0 without a chime, the chime is played during
\* call n+1, the first call that starts at 0, sound_played is true after it,
\* and no later call plays the chime again.
C7_ChimeOnceAfterZero ==
  C7_Case
    => (/\ nticks <= app.countdown_config
             => (/\ app.countdown_seconds = app.countdown_config - nticks
                 /\ Count(tick_log, "play_sound") = 0
                 /\ ~app.sound_played)
        /\ nticks = app.countdown_config + 1
             => (/\ app.countdown_seconds = 0
                 /\ tick_log = <<"play_sound">>
                 /\ app.sound_played)
        /\ nticks > app.countdown_config + 1
             => (/\ app.countdown_seconds = 0
                 /\ tick_log = << >>
                 /\ app.sound_played))

\* C7 witness: one call after the call that chimed
C7_Witness ==
  /\ C7_Case
  /\ app.countdown_config >= 2
  /\ nticks = app.countdown_config + 2
  /\ ticked
  /\ app.sound_played

(* ================== properties of startup and teardown ================ *)
\* the restoration steps of main
RestoreSteps == {"disable_raw_mode", "leave_alt_screen", "show_cursor"}

\* C8 as stated: once run_app has returned, with Ok or with an error, every
\* restoration step has been attempted by the time main returns, even if an
\* earlier restoration step failed.
C8_AllRestoreStepsAttempted ==
  (pc = "exited" /\ res # "none") => RestoreSteps \subseteq attempted

\* C9 as stated: on every exit path on which the terminal was modified, the
\* terminal is restored before the process ends: raw mode off, alternate
\* screen left, mouse capture off, cursor shown.
C9_TerminalRestoredOnExit ==
  (pc = "exited" /\ term_modified)
    => (~raw_mode /\ ~alt_screen /\ ~mouse_capture /\ ~cursor_hidden)

\* the argument vectors main rejects
BadArgs == Len(args) # 2 \/ ~ParseI32(args[2]).ok

\* C10: with an argument count other than one, or an argument that is not an
\* integer, the program prints one message and exits with status 1; it never
\* touches the terminal, never creates the timer and never ticks.
C10_BadArgsExitEarly ==
  BadArgs
    => (/\ pc \in {"check_args", "parse", "exited"}
        /\ attempted = {}
        /\ ~term_modified
        /\ ~raw_mode /\ ~alt_screen /\ ~mouse_capture /\ ~cursor_hidden
        /\ app = NoApp
        /\ nticks = 0
        /\ pc = "exited" => (exit_code = 1 /\ main_ret = "exit" /\ Len(stdout) = 1))

\* C10 witness: one argument that does not parse, after the exit
C10_Witness ==
  /\ pc = "exited"
  /\ Len(args) = 2
  /\ ~ParseI32(args[2]).ok
  /\ exit_code = 1
  /\ stdout = <<"Failure parsing argument: it must be a number">>

(* ==================== properties of the event loop ==================== *)
\* C11: in the loop, q ends it with Ok and nothing ticks or changes the timer
\* afterwards; r only sets reset; a only flips auto_mode; any other key and any
\* non-key event leave every field of the timer as it is.
C11_KeyDispatch ==
  [][/\ (pc = "poll" /\ pc' = "tick_check")
          => (/\ last_event' = "r" => app' = [app EXCEPT !.reset = TRUE]
              /\ last_event' = "a"
                   => app' = [app EXCEPT !.auto_mode = ~app.auto_mode]
              /\ last_event' \in {"other_key", "non_key", "none"} => app' = app
              /\ last_event' # "q")
     /\ (pc = "poll" /\ res' = "Ok")
          => (last_event' = "q" /\ pc' = "disable_raw" /\ app' = app)
     /\ res = "Ok"
          => (/\ app' = app
              /\ nticks' = nticks
              /\ pc' \notin {"draw", "poll", "tick_check"})]_vars

\* C11 witness: the program has quit with q after keys and ticks
C11_Witness ==
  /\ pc = "exited"
  /\ res = "Ok"
  /\ last_event = "q"
  /\ exit_code = 0
  /\ ~untouched
  /\ nticks >= 1

(* ======================= properties of rendering ====================== *)
\* index of the first c in s at or after from, 0 when there is none
IndexOf(s, c, from) ==
  LET hits == {i \in from..Len(s) : s[i] = c}
  IN  IF hits = {} THEN 0 ELSE CHOOSE i \in hits : \A j \in hits : i <= j

\* the four numbers of a "HH:MM:SS (raw)" text, as the digit strings shown
Fields(t) ==
  LET c1 == IndexOf(t, ":", 1)
      c2 == IndexOf(t, ":", c1 + 1)
      sp == IndexOf(t, " ", c2 + 1)
  IN  [hh  |-> SubSeq(t, 1, c1 - 1),
       mm  |-> SubSeq(t, c1 + 1, c2 - 1),
       ss  |-> SubSeq(t, c2 + 1, sp - 1),
       raw |-> SubSeq(t, sp + 2, Len(t) - 1),
       shaped |-> /\ c1 > 0 /\ c2 > 0 /\ sp > 0
                  /\ sp + 2 <= Len(t)
                  /\ t[sp + 1] = "("
                  /\ t[Len(t)] = ")"]

AllDigits(f) == f # << >> /\ \A i \in 1..Len(f) : f[i] \in Digits

\* what C12 says of every field but the width of the hours
C12_Values(r, t) ==
  LET f == Fields(t)
  IN  /\ f.shaped
      /\ AllDigits(f.hh) /\ AllDigits(f.mm) /\ AllDigits(f.ss) /\ AllDigits(f.raw)
      /\ DigitsValue(f.hh, 0) = r \div 3600
      /\ DigitsValue(f.mm, 0) = (r % 3600) \div 60
      /\ DigitsValue(f.ss, 0) = r % 60
      /\ DigitsValue(f.raw, 0) = r
      /\ DigitsValue(f.mm, 0) \in 0..59
      /\ DigitsValue(f.ss, 0) \in 0..59
      /\ Len(f.mm) = 2
      /\ Len(f.ss) = 2
      /\ DigitsValue(f.hh, 0) * 3600 + DigitsValue(f.mm, 0) * 60
           + DigitsValue(f.ss, 0) = r
      /\ r = 3661 => t = <<"0", "1", ":", "0", "1", ":", "0", "1", " ",
                           "(", "3", "6", "6", "1", ")">>

\* C12 as stated: for countdown_seconds = r >= 0 the text shows r div 3600,
\* (r mod 3600) div 60 and r mod 60, then the raw r; minutes and seconds are
\* in 0..59, each of the three fields has exactly two digits, the fields add
\* up to r, and 3661 gives 01:01:01 (3661).
C12_Original ==
  (pc = "formatted" /\ app.countdown_seconds >= 0)
    => (/\ C12_Values(app.countdown_seconds, screen[1])
        /\ Len(Fields(screen[1]).hh) = 2)

\* C12 amended: as stated, but the hours field has at least two digits, and
\* exactly two only for r < 360000 (under 100 hours).
C12_FormatDisplay ==
  (pc = "formatted" /\ app.countdown_seconds >= 0)
    => (/\ C12_Values(app.countdown_seconds, screen[1])
        /\ Len(Fields(screen[1]).hh) >= 2
        /\ Len(Fields(screen[1]).hh) = 2 <=> app.countdown_seconds < 360000)

\* C12 witness: 3661 has been formatted
C12_Witness ==
  /\ pc = "formatted"
  /\ app.countdown_seconds = 3661
  /\ screen[1] = <<"0", "1", ":", "0", "1", ":", "0", "1", " ",
                   "(", "3", "6", "6", "1", ")">>

(* =================== more properties of the timer ===================== *)
\* C13 as stated: whenever a timer exists countdown_config > 0; the program
\* never starts a countdown from a zero or negative duration.
C13_ConfigPositive ==
  app # NoApp => app.countdown_config > 0

\* C14: between two consecutive applied resets, and between startup and the
\* first one, play_sound is called at most once, whatever ticks and keys occur.
C14_ChimeOncePerCycle ==
  cycle_chimes <= 1

\* C14 witness: a tick at zero that did not chime again, after keys were used
C14_Witness ==
  /\ app # NoApp
  /\ cycle_chimes = 1
  /\ app.sound_played
  /\ ~untouched
  /\ ticked
  /\ tick_log = << >>
  /\ pc = "draw"

\* C15: on_tick is called at most once per loop iteration, only when at least
\* tick_rate has elapsed since last_tick, and last_tick is then set to now; so
\* two consecutive calls are at least tick_rate apart and a long block is
\* followed by one call, not by one per missed interval.
C15_TickCadence ==
  [][/\ (pc = "tick_check" /\ (ticked' \/ app' # app \/ nticks' # nticks))
          => (/\ elapsed >= tick_rate
              /\ elapsed' = 0
              /\ nticks >= 1 => play_time + elapsed >= tick_rate
              /\ nticks < MaxTicks => nticks' = nticks + 1)
     /\ pc = "tick_check" => pc' = "draw"
     /\ (pc # "tick_check" /\ app # NoApp) => nticks' = nticks]_vars

\* C15 witness: two tick intervals went by before the tick check that ticked
C15_Witness ==
  /\ pc = "draw"
  /\ ticked
  /\ nticks >= 2
  /\ elapsed = 0
  /\ play_time > 0

\* C16 as stated: in auto mode with countdown_config >= 1, the on_tick call that
\* takes countdown_seconds from 1 to 0 leaves it 0, it stays 0 until the next
\* on_tick call, and that call applies the reset and leaves it non-zero.
C16_Original ==
  [][(app # NoApp /\ app' # NoApp /\ app.countdown_config >= 1)
       => (/\ (OnTickStep /\ app.countdown_seconds = 1 /\ ~app.reset)
                => app'.countdown_seconds = 0
           /\ ~OnTickStep => app'.countdown_seconds = app.countdown_seconds
           /\ (OnTickStep /\ app.auto_mode /\ app.countdown_seconds = 0)
                => (/\ Count(tick_log', "reset") = 1
                    /\ app'.countdown_seconds # 0))]_vars

\* C16 amended: as stated, but the call that applies the reset leaves
\* countdown_seconds at countdown_config - 1, which is non-zero exactly when
\* countdown_config >= 2; with countdown_config = 1 it is 0 again.
C16_ZeroForOneTick ==
  [][(app # NoApp /\ app' # NoApp /\ app.countdown_config >= 1)
       => (/\ (OnTickStep /\ app.countdown_seconds = 1 /\ ~app.reset)
                => app'.countdown_seconds = 0
           /\ ~OnTickStep => app'.countdown_seconds = app.countdown_seconds
           /\ (OnTickStep /\ app.auto_mode /\ app.countdown_seconds = 0)
                => (/\ Count(tick_log', "reset") = 1
                    /\ app'.countdown_seconds = app.countdown_config - 1
                    /\ app'.countdown_seconds # 0 <=> app.countdown_config >= 2))]_vars

\* C16 witness: auto mode since the start, the tick after zero restarted from 2 or more
C16_Witness ==
  /\ pc = "draw"
  /\ ticked
  /\ auto_start
  /\ app.countdown_config >= 2
  /\ Count(tick_log, "reset") = 1
  /\ app.countdown_seconds = app.countdown_config - 1

\* C17 as stated: when run_app returned an I/O error, that error has been
\* printed by the time the process ends, also when a restoration step failed.
C17_LoopErrorPrinted ==
  (pc = "exited" /\ res = "io_err")
    => \E i \in 1..Len(stdout) : stdout[i] = "io_err"

(* ===================== properties under fair ticking ================== *)
\* the runs C18 is about: auto mode on before the first tick, no other key
AutoRun == app # NoApp /\ auto_start /\ app.countdown_config >= 1

\* the latest tick check called on_tick and it played the chime
JustChimed == pc = "draw" /\ ticked /\ Chimed(tick_log)

\* C18: with auto mode on from the start, no other key and n >= 1, the chime
\* is played again and again: first in on_tick call n+1, then exactly every n
\* calls; after a tick countdown_seconds is never n, and n-1 after a reset.
C18_AutoRepeatChimes ==
  /\ [][(OnTickStep /\ AutoRun)
          => (/\ calls_since_chime < nticks
                   => (Chimed(tick_log') <=> calls_since_chime = app.countdown_config - 1)
              /\ (calls_since_chime = nticks /\ nticks < MaxTicks)
                   => (Chimed(tick_log') <=> nticks = app.countdown_config)
              /\ Count(tick_log', "reset") = 1
                   => app'.countdown_seconds = app.countdown_config - 1
              /\ app'.countdown_seconds # app.countdown_config)]_vars
  /\ AutoRun ~> JustChimed

\* C18 witness: a repeated chime of a run with n = 2, in call 5 or later
\* (the first one was in call 3)
C18_Witness ==
  /\ AutoRun
  /\ JustChimed
  /\ app.countdown_config = 2
  /\ nticks = 5

\* the runs C19 is about: no r or a ever, n >= 0, ticking has begun
C19_Case ==
  /\ app # NoApp
  /\ untouched
  /\ nticks >= 1
  /\ app.countdown_config >= 0

\* the final state of C19: at zero, chimed once, and on_tick changes nothing
C19_Done ==
  /\ app # NoApp
  /\ app.countdown_seconds = 0
  /\ app.sound_played
  /\ ~app.reset
  /\ cycle_chimes = 1
  /\ on_tick(app) = [app |-> app, log |-> << >>]

\* C19: without auto mode and resets, from n >= 0 and under fair ticking the
\* timer reaches countdown_seconds = 0 with sound_played true and reset false,
\* having chimed exactly once, and stays there: on_tick changes nothing more.
C19_ReachesFixpoint ==
  /\ C19_Case ~> C19_Done
  /\ [][(C19_Case /\ C19_Done) => C19_Done']_vars
  /\ [](C19_Case => cycle_chimes <= 1)

\* C19 witness: ticks went on after the chime
C19_Witness ==
  /\ C19_Case
  /\ C19_Done
  /\ app.countdown_config >= 2
  /\ nticks >= app.countdown_config + 2
  /\ ticked

\* C20: handling a key never moves last_tick and always leads to the tick
\* check of the same iteration, and a tick check that sees tick_rate or more
\* elapsed calls on_tick, whatever keys keep arriving.
C20_KeysDoNotStarveTicks ==
  [][/\ (pc = "poll" /\ pc' # "disable_raw")
          => (pc' = "tick_check" /\ elapsed' >= elapsed)
     /\ (pc = "tick_check" /\ elapsed >= tick_rate)
          => (/\ ticked'
              /\ app' = on_tick(app).app
              /\ tick_log' = on_tick(app).log
              /\ elapsed' = 0)]_vars

\* C20 witness: a key was handled and the tick check of that iteration ticked
C20_Witness ==
  /\ pc = "draw"
  /\ ticked
  /\ last_event \in {"r", "a", "other_key"}
  /\ nticks >= 2

====
